---- MODULE Spec2Model ----
(***************************************************************************)
(* Model of barkr.main.Barkr (src/barkr/main.py): the relay that polls     *)
(* every READ connection, fans the messages read out to the queues of the  *)
(* other connections, and flushes every WRITE connection's queue.          *)
(*                                                                         *)
(* Barkr.read and Barkr.write run on two threads (Barkr.start); they share *)
(* message_queues under message_queues_lock.  An action is a stretch of a  *)
(* method between two points at which the other thread can tell the        *)
(* difference: a call of a collaborator, its return or its raising, a with *)
(* block of the writer, and each iteration of the reader's fan-out loop.   *)
(***************************************************************************)
EXTENDS Integers, Sequences, FiniteSets, TLC

\* ------------------------------------------------------------------ bounds
\* Messages the collaborators' read() calls hand out in one run.
MaxMsgs == 2
\* Longest sequence a single read() call returns.
MaxBatch == 2
\* write() calls that raise in one run.
MaxWriteFails == 1

\* ------------------------------------------------------- connections, modes
READ == "READ"
WRITE == "WRITE"

Connection(n, m) == [name |-> n, modes |-> m]

\* The connection lists the constructor is called with: the empty list, the
\* A/B/C relay, a list with a read-only and a mode-less connection behind a
\* READ+WRITE one, and a list in which two connections share a name.
Configurations ==
    { << >>,
      << Connection("A", {READ, WRITE}), Connection("B", {READ, WRITE}),
         Connection("C", {WRITE}) >>,
      << Connection("A", {READ, WRITE}), Connection("B", {READ}),
         Connection("C", {}) >>,
      << Connection("A", {READ}), Connection("A", {WRITE}),
         Connection("B", {READ, WRITE}) >> }

VARIABLES
    args,                \* the list handed to Barkr(connections)
    phase,               \* "new", "config_error", "constructed", "running"
    connections,         \* self.connections
    message_queues,      \* self.message_queues: name -> list of messages
    message_queues_lock, \* self.message_queues_lock: "free" or its holder
    rpc, ri,             \* reader thread: position, index in self.connections
    rmessages,           \* reader: local `messages`
    rnames,              \* reader: names left in `for name in self.message_queues`
    wpc, wi,             \* writer thread: position, index in self.connections
    wmessages,           \* writer: local `messages`
    nextId,              \* id of the next message a read() hands out
    writeFails,          \* write() calls that raised so far
    readLog,             \* history: every message returned by a read(), in order
    readCalled,          \* history: indices of connections whose read() was called
    fannedTo,            \* history: name -> every message appended to its queue
    writeLog,            \* history: index -> the batches passed to its write()
    rInvoked,            \* this read tick: indices whose read() was called
    rOutcome,            \* this read tick: "none", "running", "completed", "raised"
    rRaised,             \* this read tick: index whose read() raised, or 0
    rPrev,               \* the queues as they were when the fan-out took the lock
    wOutcome,            \* this write tick: "none", "running", "completed", "raised"
    wRaised,             \* this write tick: index whose write() raised, or 0
    wCalls,              \* this write tick: index -> number of write() calls
    wCleared,            \* this write tick: indices whose queue line 94 reset
    wStartNonEmpty       \* this write turn: the queue held messages at its start

vars == << args, phase, connections, message_queues, message_queues_lock,
           rpc, ri, rmessages, rnames, wpc, wi, wmessages,
           nextId, writeFails, readLog, readCalled, fannedTo, writeLog,
           rInvoked, rOutcome, rRaised, rPrev,
           wOutcome, wRaised, wCalls, wCleared, wStartNonEmpty >>

readerVars == << rpc, ri, rmessages, rnames >>
writerVars == << wpc, wi, wmessages >>
readTickVars == << rInvoked, rOutcome, rRaised, rPrev >>
writeTickVars == << wOutcome, wRaised, wCalls, wCleared, wStartNonEmpty >>
objectVars == << args, phase, connections >>

\* ----------------------------------------------------------------- helpers
Indices == 1..Len(connections)

RECURSIVE Flatten(_)
Flatten(batches) ==
    IF batches = << >> THEN << >>
    ELSE Head(batches) \o Flatten(Tail(batches))

Range(s) == { s[k] : k \in 1..Len(s) }

Count(s, m) == Cardinality({ k \in 1..Len(s) : s[k] = m })

\* Keys of a dict built from a list of connections, in insertion order: a
\* repeated name keeps the place of its first occurrence.
RECURSIVE DictKeys(_, _)
DictKeys(conns, seen) ==
    IF conns = << >> THEN << >>
    ELSE IF Head(conns).name \in seen THEN DictKeys(Tail(conns), seen)
    ELSE << Head(conns).name >>
             \o DictKeys(Tail(conns), seen \cup {Head(conns).name})

\* Variant: only the connections with WRITE get a queue.
EmptyQueuesOfWriters(conns) ==
    [ n \in { conns[k].name : k \in { j \in 1..Len(conns) :
                                         WRITE \in conns[j].modes } } |-> << >> ]

\* {connection.name: [] for connection in connections}
EmptyQueues(conns) == [ n \in { conns[k].name : k \in 1..Len(conns) } |-> << >> ]

\* What a read() call of connection i can return: no message, or up to
\* MaxBatch messages never returned before (the collaborator's watermark).
FreshBatch(i, k) == [ j \in 1..k |-> [src |-> i, id |-> nextId + j - 1] ]

BatchSizes ==
    { k \in 0..MaxBatch : nextId + k - 1 <= MaxMsgs }

\* Variant: entering the with block leaves the lock as it was.
AcquiredNot(lock, thread) == lock

\* The lock once `with self.message_queues_lock:` has been entered by thread.
Acquired(lock, thread) == thread

\* Variant: a with statement is kept out by the reader only, not by the writer.
CanAcquireFromWriter(lock) == lock # "reader"

\* Variant: the with statement lets a thread in whoever holds the lock.
CanAcquireAlways(lock) == TRUE

\* `with self.message_queues_lock:` goes on only once the Lock, which is not
\* reentrant and has one holder at most, is free.
CanAcquire(lock) == lock = "free"

\* Variant: the READ mode is not looked at.
ReadAllowedAlways(connection) == TRUE

\* `ConnectionMode.READ not in connection.modes` is false
ReadAllowed(connection) == READ \in connection.modes

\* `ConnectionMode.WRITE in connection.modes`
WriteAllowed(connection) == WRITE \in connection.modes

\* `if messages:` of Barkr.read
ReadHasMessages(messages) == messages # << >>

\* Variant: write() is called whatever the queue holds.
WriteAlways(messages) == TRUE

\* `if messages:` of Barkr.write
WriteHasMessages(messages) == messages # << >>

\* Variant: the new messages go in front of the queue.
FanOutQueuePrepend(queue, name, source, messages) ==
    IF name # source THEN messages \o queue ELSE queue

\* Variant: the source's own queue gets the messages too.
FanOutQueueNoSkip(queue, name, source, messages) == queue \o messages

\* `if name != connection.name: self.message_queues[name] += messages`
FanOutQueue(queue, name, source, messages) ==
    IF name # source THEN queue \o messages ELSE queue

\* `messages = self.message_queues[connection.name]`
QueueSnapshot(queues, name) == queues[name]

\* the argument of `connection.write(messages)`
WriteArgument(messages) == messages

\* Variant: the empty list is stored under a key of its own.
ClearedQueuesUnderNewKey(queues, name) ==
    [ n \in DOMAIN queues \cup {"connection"} |->
        IF n \in DOMAIN queues THEN queues[n] ELSE << >> ]

\* Variant: the queue is left as it is.
ClearedNothing(queues, name) == queues

\* `self.message_queues[connection.name] = []`
ClearedQueues(queues, name) == [queues EXCEPT ![name] = << >>]

\* ---------------------------------------------------------- construction
Init ==
    /\ args \in Configurations
    /\ phase = "new"
    /\ connections = << >>
    /\ message_queues = << >>
    /\ message_queues_lock = "free"
    /\ rpc = "off" /\ ri = 0 /\ rmessages = << >> /\ rnames = << >>
    /\ wpc = "off" /\ wi = 0 /\ wmessages = << >>
    /\ nextId = 1 /\ writeFails = 0
    /\ readLog = << >> /\ readCalled = {}
    /\ fannedTo = << >> /\ writeLog = << >>
    /\ rInvoked = {} /\ rOutcome = "none" /\ rRaised = 0 /\ rPrev = << >>
    /\ wOutcome = "none" /\ wRaised = 0 /\ wCalls = << >> /\ wCleared = {}
    /\ wStartNonEmpty = FALSE

\* Barkr.__init__ with an empty list: raises ValueError, nothing is built.
ConstructFails ==
    /\ phase = "new"
    /\ args = << >>
    /\ phase' = "config_error"
    /\ UNCHANGED << args, connections, message_queues, message_queues_lock,
                    readerVars, writerVars, nextId, writeFails, readLog,
                    readCalled, fannedTo, writeLog, readTickVars,
                    writeTickVars >>

\* Barkr.__init__ with at least one connection.
Construct ==
    /\ phase = "new"
    /\ args # << >>
    /\ phase' = "constructed"
    /\ connections' = args
    /\ message_queues' = EmptyQueues(args)
    /\ message_queues_lock' = "free"
    /\ fannedTo' = EmptyQueues(args)
    /\ writeLog' = [ i \in 1..Len(args) |-> << >> ]
    /\ wCalls' = [ i \in 1..Len(args) |-> 0 ]
    /\ UNCHANGED << args, readerVars, writerVars, nextId, writeFails, readLog,
                    readCalled, rInvoked, rOutcome, rRaised, rPrev,
                    wOutcome, wRaised, wCleared, wStartNonEmpty >>

\* Barkr.start: both threads are started; each runs its method in a loop.
Start ==
    /\ phase = "constructed"
    /\ phase' = "running"
    /\ rpc' = "idle"
    /\ wpc' = "idle"
    /\ UNCHANGED << args, connections, message_queues, message_queues_lock,
                    ri, rmessages, rnames, wi, wmessages, nextId, writeFails,
                    readLog, readCalled, fannedTo, writeLog, readTickVars,
                    writeTickVars >>

\* ------------------------------------------------------------ reader thread
\* Variant: the wrapper does not call self.read() again once a call raised.
ReadTickStartUnlessRaised ==
    /\ rpc = "idle"
    /\ rOutcome # "raised"
    /\ rpc' = "for" /\ ri' = 1
    /\ rInvoked' = {} /\ rOutcome' = "running" /\ rRaised' = 0
    /\ UNCHANGED << objectVars, message_queues, message_queues_lock,
                    rmessages, rnames, writerVars, nextId, writeFails,
                    readLog, readCalled, fannedTo, writeLog, rPrev,
                    writeTickVars >>

\* The wrapper calls self.read(): a read tick starts at the first connection.
ReadTickStart ==
    /\ rpc = "idle"
    /\ rpc' = "for" /\ ri' = 1
    /\ rInvoked' = {} /\ rOutcome' = "running" /\ rRaised' = 0
    /\ UNCHANGED << objectVars, message_queues, message_queues_lock,
                    rmessages, rnames, writerVars, nextId, writeFails,
                    readLog, readCalled, fannedTo, writeLog, rPrev,
                    writeTickVars >>

\* The for loop of Barkr.read moves on from connection ri; behind the last
\* connection read() returns and the tick is over.
ReaderAdvance ==
    IF ri < Len(connections)
    THEN /\ rpc' = "for" /\ ri' = ri + 1
         /\ UNCHANGED << rOutcome >>
    ELSE /\ rpc' = "idle" /\ ri' = 0
         /\ rOutcome' = "completed"

\* `if ConnectionMode.READ not in connection.modes: continue`
ReadSkip ==
    /\ rpc = "for"
    /\ ~ReadAllowed(connections[ri])
    /\ ReaderAdvance
    /\ UNCHANGED << objectVars, message_queues, message_queues_lock,
                    rmessages, rnames, writerVars, nextId, writeFails,
                    readLog, readCalled, fannedTo, writeLog,
                    rInvoked, rRaised, rPrev, writeTickVars >>

\* Variant: the reader takes the lock before it calls connection.read().
ReadCallUnderLock ==
    /\ rpc = "for"
    /\ ReadAllowed(connections[ri])
    /\ CanAcquire(message_queues_lock)
    /\ message_queues_lock' = Acquired(message_queues_lock, "reader")
    /\ rpc' = "reading"
    /\ rInvoked' = rInvoked \cup {ri}
    /\ readCalled' = readCalled \cup {ri}
    /\ UNCHANGED << objectVars, message_queues,
                    ri, rmessages, rnames, writerVars, nextId, writeFails,
                    readLog, fannedTo, writeLog, rOutcome, rRaised, rPrev,
                    writeTickVars >>

\* `connection.read()` is called; the lock is not held.
ReadCall ==
    /\ rpc = "for"
    /\ ReadAllowed(connections[ri])
    /\ rpc' = "reading"
    /\ rInvoked' = rInvoked \cup {ri}
    /\ readCalled' = readCalled \cup {ri}
    /\ UNCHANGED << objectVars, message_queues, message_queues_lock,
                    ri, rmessages, rnames, writerVars, nextId, writeFails,
                    readLog, fannedTo, writeLog, rOutcome, rRaised, rPrev,
                    writeTickVars >>

\* `messages = connection.read()` returns; `if messages:` decides what follows.
ReadReturn ==
    /\ rpc = "reading"
    /\ \E k \in BatchSizes :
         LET messages == FreshBatch(ri, k) IN
         /\ nextId' = nextId + k
         /\ readLog' = readLog \o messages
         /\ IF ReadHasMessages(messages)
            THEN /\ rpc' = "lock" /\ rmessages' = messages
                 /\ UNCHANGED << ri, rOutcome >>
            ELSE /\ rmessages' = << >>
                 /\ ReaderAdvance
    /\ UNCHANGED << objectVars, message_queues, message_queues_lock,
                    rnames, writerVars, writeFails, readCalled, fannedTo,
                    writeLog, rInvoked, rRaised, rPrev, writeTickVars >>

\* `connection.read()` raises: nothing in Barkr.read catches it, so the for
\* loop and the call of self.read() end; the wrapper logs it.
ReadRaise ==
    /\ rpc = "reading"
    /\ rpc' = "idle"
    /\ rRaised' = ri
    /\ ri' = 0
    /\ rOutcome' = "raised"
    /\ UNCHANGED << objectVars, message_queues, message_queues_lock,
                    rmessages, rnames, writerVars, nextId, writeFails,
                    readLog, readCalled, fannedTo, writeLog, rInvoked, rPrev,
                    writeTickVars >>

\* `with self.message_queues_lock:` of Barkr.read
FanOutAcquire ==
    /\ rpc = "lock"
    /\ CanAcquire(message_queues_lock)
    /\ message_queues_lock' = Acquired(message_queues_lock, "reader")
    /\ rpc' = "fanout"
    /\ rnames' = DictKeys(connections, {})
    /\ rPrev' = message_queues
    /\ UNCHANGED << objectVars, message_queues, ri, rmessages, writerVars,
                    nextId, writeFails, readLog, readCalled, fannedTo,
                    writeLog, rInvoked, rOutcome, rRaised, writeTickVars >>

\* One iteration of `for name in self.message_queues`.
FanOutStep ==
    /\ rpc = "fanout"
    /\ rnames # << >>
    /\ LET name == Head(rnames)
           source == connections[ri].name IN
       /\ message_queues' =
            [message_queues EXCEPT
               ![name] = FanOutQueue(@, name, source, rmessages)]
       /\ fannedTo' =
            [fannedTo EXCEPT
               ![name] = FanOutQueue(@, name, source, rmessages)]
    /\ rnames' = Tail(rnames)
    /\ UNCHANGED << objectVars, message_queues_lock, rpc, ri, rmessages,
                    writerVars, nextId, writeFails, readLog, readCalled,
                    writeLog, readTickVars, writeTickVars >>

\* The for loop over the names is done: the with block releases the lock.
FanOutRelease ==
    /\ rpc = "fanout"
    /\ rnames = << >>
    /\ message_queues_lock' = "free"
    /\ rmessages' = << >>
    /\ rPrev' = << >>
    /\ ReaderAdvance
    /\ UNCHANGED << objectVars, message_queues, rnames, writerVars, nextId,
                    writeFails, readLog, readCalled, fannedTo, writeLog,
                    rInvoked, rRaised, writeTickVars >>

\* ------------------------------------------------------------ writer thread
\* The for loop of Barkr.write reaches connection i: the mode test of line 80
\* sends it to the with block of line 81 or straight to the one of line 93.
WriterEnter(i, queues) ==
    /\ wi' = i
    /\ wpc' = IF WriteAllowed(connections[i]) THEN "lock1" ELSE "lock2"
    /\ wStartNonEmpty' = (queues[connections[i].name] # << >>)

\* The wrapper calls self.write(): a write tick starts at the first connection.
WriteTickStart ==
    /\ wpc = "idle"
    /\ WriterEnter(1, message_queues)
    /\ wOutcome' = "running" /\ wRaised' = 0
    /\ wCalls' = [ i \in Indices |-> 0 ]
    /\ wCleared' = {}
    /\ UNCHANGED << objectVars, message_queues, message_queues_lock,
                    readerVars, wmessages, nextId, writeFails, readLog,
                    readCalled, fannedTo, writeLog, readTickVars >>

\* Lines 81-85: the lock is taken, `messages` is bound to the connection's
\* queue and tested; with messages, connection.write(messages) is called with
\* the lock held; without, the with block ends and the lock is free again.
WriteSnapshot ==
    /\ wpc = "lock1"
    /\ CanAcquire(message_queues_lock)
    /\ LET messages == QueueSnapshot(message_queues, connections[wi].name) IN
       /\ wmessages' = messages
       /\ IF WriteHasMessages(messages)
          THEN /\ wpc' = "writing"
               /\ message_queues_lock' =
                    Acquired(message_queues_lock, "writer")
               /\ writeLog' =
                    [writeLog EXCEPT ![wi] = Append(@, WriteArgument(messages))]
               /\ wCalls' = [wCalls EXCEPT ![wi] = @ + 1]
          ELSE /\ wpc' = "lock2"
               /\ UNCHANGED << message_queues_lock, writeLog, wCalls >>
    /\ UNCHANGED << objectVars, message_queues, readerVars, wi, nextId,
                    writeFails, readLog, readCalled, fannedTo, readTickVars,
                    wOutcome, wRaised, wCleared, wStartNonEmpty >>

\* connection.write(messages) returns; the with block releases the lock.
WriteReturn ==
    /\ wpc = "writing"
    /\ message_queues_lock' = "free"
    /\ wpc' = "lock2"
    /\ UNCHANGED << objectVars, message_queues, readerVars, wi, wmessages,
                    nextId, writeFails, readLog, readCalled, fannedTo,
                    writeLog, readTickVars, writeTickVars >>

\* Variant: a raising write() leaves the lock held.
WriteRaiseKeepsLock ==
    /\ wpc = "writing"
    /\ writeFails < MaxWriteFails
    /\ writeFails' = writeFails + 1
    /\ wpc' = "idle"
    /\ wRaised' = wi
    /\ wi' = 0
    /\ wmessages' = << >>
    /\ wOutcome' = "raised"
    /\ UNCHANGED << objectVars, message_queues, message_queues_lock,
                    readerVars, nextId, readLog,
                    readCalled, fannedTo, writeLog, readTickVars, wCalls,
                    wCleared, wStartNonEmpty >>

\* connection.write(messages) raises: the with block releases the lock and
\* nothing in Barkr.write catches the error, so line 94 is not reached and
\* the call of self.write() ends; the wrapper logs it.
WriteRaise ==
    /\ wpc = "writing"
    /\ writeFails < MaxWriteFails
    /\ writeFails' = writeFails + 1
    /\ message_queues_lock' = "free"
    /\ wpc' = "idle"
    /\ wRaised' = wi
    /\ wi' = 0
    /\ wmessages' = << >>
    /\ wOutcome' = "raised"
    /\ UNCHANGED << objectVars, message_queues, readerVars, nextId, readLog,
                    readCalled, fannedTo, writeLog, readTickVars, wCalls,
                    wCleared, wStartNonEmpty >>

\* Lines 93-94: the lock is taken, the connection's queue is replaced by an
\* empty list, the lock is released; the for loop moves on, and behind the
\* last connection write() returns and the tick is over.
ClearQueue ==
    /\ wpc = "lock2"
    /\ CanAcquire(message_queues_lock)
    /\ message_queues' = ClearedQueues(message_queues, connections[wi].name)
    /\ wCleared' = wCleared \cup {wi}
    /\ wmessages' = << >>
    /\ IF wi < Len(connections)
       THEN /\ WriterEnter(wi + 1, message_queues')
            /\ UNCHANGED wOutcome
       ELSE /\ wpc' = "idle" /\ wi' = 0
            /\ wStartNonEmpty' = FALSE
            /\ wOutcome' = "completed"
    /\ UNCHANGED << objectVars, message_queues_lock, readerVars, nextId,
                    writeFails, readLog, readCalled, fannedTo, writeLog,
                    readTickVars, wRaised, wCalls >>

\* ------------------------------------------------------------ specification
ReaderStep ==
    \/ ReadTickStart
    \/ ReadSkip
    \/ ReadCall
    \/ ReadReturn
    \/ ReadRaise
    \/ FanOutAcquire
    \/ FanOutStep
    \/ FanOutRelease

WriterStep ==
    \/ WriteTickStart
    \/ WriteSnapshot
    \/ WriteReturn
    \/ WriteRaise
    \/ ClearQueue

Next ==
    \/ ConstructFails
    \/ Construct
    \/ Start
    \/ ReaderStep
    \/ WriterStep

Spec == Init /\ [][Next]_vars

\* Ticks run one after the other and no call raises: a loop moves only while
\* the other one is between two ticks.
SeqNext ==
    \/ ConstructFails
    \/ Construct
    \/ Start
    \/ wpc = "idle" /\ ReadTickStart
    \/ wpc = "idle" /\ ReadSkip
    \/ wpc = "idle" /\ ReadCall
    \/ wpc = "idle" /\ ReadReturn
    \/ wpc = "idle" /\ FanOutAcquire
    \/ wpc = "idle" /\ FanOutStep
    \/ wpc = "idle" /\ FanOutRelease
    \/ rpc = "idle" /\ WriteTickStart
    \/ rpc = "idle" /\ WriteSnapshot
    \/ rpc = "idle" /\ WriteReturn
    \/ rpc = "idle" /\ ClearQueue

SpecSeq == Init /\ [][SeqNext]_vars

\* Both threads keep running: every call of a collaborator returns or raises,
\* every sleep of the wrapper ends, and a thread that finds the lock free
\* again and again gets it in the end.
Fairness ==
    /\ WF_vars(ReaderStep)
    /\ WF_vars(WriterStep)
    /\ SF_vars(FanOutAcquire)
    /\ SF_vars(WriteSnapshot)
    /\ SF_vars(ClearQueue)

FairSpec == Spec /\ Fairness

\* read() of the second connection never returns and never raises.
Hangs(i) == i = 2

\* The steps of a run in which that read() call hangs.
HangNext ==
    \/ ConstructFails
    \/ Construct
    \/ Start
    \/ ReadTickStart
    \/ ReadSkip
    \/ ReadCall
    \/ ~Hangs(ri) /\ ReadReturn
    \/ ~Hangs(ri) /\ ReadRaise
    \/ FanOutAcquire
    \/ FanOutStep
    \/ FanOutRelease
    \/ WriteTickStart
    \/ WriteSnapshot
    \/ WriteReturn
    \/ WriteRaise
    \/ ClearQueue

\* The writer thread keeps running, every write() call returns or raises;
\* nothing is asked of the reader thread.
SpecHang ==
    /\ Init /\ [][HangNext]_vars
    /\ WF_vars(WriterStep)
    /\ SF_vars(WriteSnapshot)
    /\ SF_vars(ClearQueue)

\* -------------------------------------------------------------- properties
UniqueNames ==
    \A i, j \in Indices : i # j => connections[i].name # connections[j].name

\* READ, WRITE is in the modes of connection i.
HasRead(i) == READ \in connections[i].modes

HasWrite(i) == WRITE \in connections[i].modes

\* Every message passed to write() of connection i, over all its calls.
Delivered(i) == Flatten(writeLog[i])

QueueOf(i) == message_queues[connections[i].name]

\* C1: with unique names and no write() raising, a message fanned out to the
\* queue of a WRITE connection is passed to that connection's write() exactly
\* once: at any moment it has been passed at most once, and if it has not
\* been passed yet it is still waiting in the queue.
C1_FannedOutWrittenExactlyOnce ==
    (phase = "running" /\ UniqueNames /\ writeFails = 0) =>
        \A i \in Indices :
            HasWrite(i) =>
                \A m \in Range(fannedTo[connections[i].name]) :
                    /\ Count(Delivered(i), m) <= 1
                    /\ Count(Delivered(i), m) = 1 \/ m \in Range(QueueOf(i))

\* The step that ends the writer's turn at connection wi: line 94 has reset
\* the queue, or write() has raised.
WriterTurnEnds == wpc \in {"writing", "lock2"} /\ wi' # wi

\* C2: with unique names, the queue of a WRITE connection that was non-empty
\* when its turn of a write tick started is empty right after that turn,
\* whether write() returned or raised.
C2_QueueEmptyAfterTurn ==
    [][ ( /\ WriterTurnEnds
          /\ UniqueNames
          /\ HasWrite(wi)
          /\ wStartNonEmpty )
        => message_queues'[connections[wi].name] = << >> ]_vars

\* C3: with unique names, no message is passed to the same connection's
\* write() in more than one call: a batch whose write() raised is never
\* handed over again.
C3_NoRedelivery ==
    UniqueNames =>
    \A i \in Indices :
        \A a, b \in 1..Len(writeLog[i]) :
            a # b => Range(writeLog[i][a]) \cap Range(writeLog[i][b]) = {}

\* C4: with unique names, when read() of connection rRaised raised in a read
\* tick, every READ connection behind it in self.connections had its read()
\* called in that same tick.
C4_ReadFailureIsolated ==
    (UniqueNames /\ rOutcome = "raised") =>
        \A j \in Indices :
            (j > rRaised /\ HasRead(j)) => j \in rInvoked

\* C5: while the reader fans out the k > 0 messages read from connection ri,
\* every queue whose name the loop has passed and that differs from the
\* source's name is its contents at the start of the fan-out followed by
\* exactly those messages, in order; the source's queue and the queues not
\* reached yet are as they were.  With the loop done (rnames empty) this is
\* the result of the fan-out step.
C5_FanOutAppendsInOrder ==
    rpc = "fanout" =>
        /\ Len(rmessages) > 0
        /\ \A n \in DOMAIN message_queues :
              message_queues[n] =
                  IF n \in Range(rnames) \/ n = connections[ri].name
                  THEN rPrev[n]
                  ELSE rPrev[n] \o rmessages

\* A fan-out is complete, some destination queue held a message before it
\* and holds that message followed by the new one now, and the source's own
\* queue held a message too and is as it was.
C5_Witness ==
    /\ rpc = "fanout" /\ rnames = << >>
    /\ Len(rmessages) > 0
    /\ rPrev[connections[ri].name] # << >>
    /\ QueueOf(ri) = rPrev[connections[ri].name]
    /\ \E n \in DOMAIN message_queues :
          n # connections[ri].name /\ rPrev[n] # << >>
                                   /\ message_queues[n] = rPrev[n] \o rmessages

\* C6: with unique names, write() is never called on a connection without WRITE, and a write
\* tick that has ended has reset the queue of every connection without WRITE,
\* also when it ended because some connection's write() raised.
C6_NonWriteClearedEveryTick ==
    UniqueNames =>
        /\ \A i \in Indices :
              ~HasWrite(i) => writeLog[i] = << >>
        /\ wOutcome \in {"completed", "raised"} =>
              \A i \in Indices :
                  ~HasWrite(i) => i \in wCleared

\* C7: in a write tick write() is called at most once per connection and
\* never on a connection without WRITE; while a call is in progress its
\* argument is non-empty and is the whole queue of the connection, in stored
\* order; and once the turn of a WRITE connection is past line 90, write()
\* was called in it exactly if the queue read at line 82 was non-empty.
C7_OneFullBatchPerTurn ==
    phase = "running" =>
        /\ \A i \in Indices :
              /\ wCalls[i] <= 1
              /\ ~HasWrite(i) => wCalls[i] = 0
        /\ wpc = "writing" =>
              /\ wCalls[wi] = 1
              /\ writeLog[wi][Len(writeLog[wi])] # << >>
              /\ writeLog[wi][Len(writeLog[wi])] = QueueOf(wi)
              /\ wmessages = QueueOf(wi)
        /\ (wpc = "lock2" /\ HasWrite(wi)) =>
              (wCalls[wi] = 1 <=> wmessages # << >>)
        /\ \A i \in Indices : \A b \in Range(writeLog[i]) : b # << >>

\* write() of a connection is in progress with a batch of two messages, and
\* another WRITE connection's turn of the same tick went by without a call.
C7_Witness ==
    /\ wpc = "writing"
    /\ Len(QueueOf(wi)) = 2
    /\ \E i \in Indices :
          i < wi /\ HasWrite(i) /\ wCalls[i] = 0

\* C8: read() of a connection without READ is never called, and no message
\* that came from it is in any queue or in any batch passed to a write().
C8_NonReadNeverRead ==
    \A i \in Indices :
        ~HasRead(i) =>
            /\ i \notin readCalled
            /\ \A n \in DOMAIN message_queues :
                  \A m \in Range(message_queues[n]) : m.src # i
            /\ \A j \in Indices :
                  \A m \in Range(Delivered(j)) : m.src # i

\* A read tick has gone over a connection without READ to the end, and that
\* connection has been written messages of others.
C8_Witness ==
    /\ rOutcome = "completed"
    /\ \E i \in Indices :
          /\ ~HasRead(i)
          /\ i \notin readCalled
          /\ Delivered(i) # << >>

\* C9: with unique names, no message read from a connection is in that
\* connection's own queue or in a batch passed to its own write().
C9_NoEcho ==
    UniqueNames =>
        \A i \in Indices :
            /\ \A m \in Range(QueueOf(i)) : m.src # i
            /\ \A m \in Range(Delivered(i)) : m.src # i

\* A READ+WRITE connection has had a message of its own fanned out and
\* written to another connection, and has itself been written a batch.
C9_Witness ==
    /\ UniqueNames
    /\ \E i, j \in Indices :
          /\ i # j
          /\ Delivered(i) # << >>
          /\ \E m \in Range(Delivered(j)) : m.src = i

\* The messages of log that were not read from a connection called name.
RECURSIVE FromOthers(_, _)
FromOthers(log, name) ==
    IF log = << >> THEN << >>
    ELSE IF connections[Head(log).src].name # name
         THEN << Head(log) >> \o FromOthers(Tail(log), name)
         ELSE FromOthers(Tail(log), name)

\* Every message read so far from a connection other than i, in read order.
Expected(i) == FromOthers(readLog, connections[i].name)

IsSuffix(s, t) ==
    /\ Len(s) <= Len(t)
    /\ \A k \in 1..Len(s) : s[k] = t[Len(t) - Len(s) + k]

WriteTickCompletes == wpc # "idle" /\ wpc' = "idle"

\* C10: with ticks one after the other, no call raising and unique names:
\* whenever both loops are between ticks, every queue holds the last of the
\* messages read from the other connections, in read order and none from its
\* own connection, and what the write() calls of a WRITE connection were
\* passed, followed by its queue, is exactly the messages read from the other
\* connections in read order; and the step that completes a write tick leaves
\* every queue empty, every WRITE connection having been passed exactly the
\* messages read from the others.
C10_SequentialRelay ==
    [][ UniqueNames' =>
          /\ (phase' = "running" /\ rpc' = "idle" /\ wpc' = "idle") =>
                \A i \in Indices' :
                    /\ IsSuffix(QueueOf(i)', Expected(i)')
                    /\ HasWrite(i)' =>
                          Delivered(i)' \o QueueOf(i)' = Expected(i)'
          /\ WriteTickCompletes =>
                \A i \in Indices :
                    /\ QueueOf(i)' = << >>
                    /\ HasWrite(i) =>
                          Delivered(i)' = Expected(i)' ]_vars

\* The A/B/C relay after one read tick in which A.read() returned one message
\* and one write tick: B.write and C.write were each called once with that
\* message, A.write was not called, and every queue is empty.
C10_Witness ==
    /\ rpc = "idle" /\ wpc = "idle" /\ wOutcome = "completed"
    /\ Len(connections) = 3
    /\ connections[3] = Connection("C", {WRITE})
    /\ readLog = << [src |-> 1, id |-> 1] >>
    /\ writeLog = << << >>, << readLog >>, << readLog >> >>
    /\ \A n \in DOMAIN message_queues : message_queues[n] = << >>

\* Place of message m in the sequence s that holds it.
PlaceIn(s, m) == CHOOSE k \in 1..Len(s) : s[k] = m

\* The messages of s follow one another as they do in ref.
InOrderOf(s, ref) ==
    \A a, b \in 1..Len(s) : a < b => PlaceIn(ref, s[a]) <= PlaceIn(ref, s[b])

\* C11: with unique names, for every connection D the messages in D's queue,
\* and the batches passed to D.write() one after the other, are in the order
\* in which the fan-out steps appended them to D's queue: no message appended
\* later comes before one appended earlier.
C11_PerDestinationOrder ==
    (phase = "running" /\ UniqueNames) =>
        \A i \in Indices :
            /\ InOrderOf(QueueOf(i), fannedTo[connections[i].name])
            /\ InOrderOf(Delivered(i), fannedTo[connections[i].name])

\* The same with no write() having raised: the order holds.
C11_OrderWithoutFailure == writeFails = 0 => C11_PerDestinationOrder

ReadTickBegins == rpc = "for" /\ ri = 1

WriteTickBegins == wpc \in {"lock1", "lock2"} /\ wi = 1 /\ wCleared = {}

\* C12: once started, each loop ends every tick and begins another one after
\* every tick, also after a tick that ended because read() or write() raised:
\* both loops tick for ever, so the joins of start() never return.
C12_LoopsKeepTicking ==
    /\ (phase = "running") ~> (rpc = "idle")
    /\ (phase = "running") ~> (wpc = "idle")
    /\ (phase = "running" /\ rpc = "idle") ~> ReadTickBegins
    /\ (phase = "running" /\ wpc = "idle") ~> WriteTickBegins

\* The last read tick ended because a read() raised, a write() has raised
\* before, and the writer is in a later tick, past its first connection.
C12_Witness ==
    /\ rpc = "idle" /\ rOutcome = "raised"
    /\ writeFails = 1
    /\ wOutcome = "running" /\ wCleared # {}

\* The names of a list of connections.
NamesOf(conns) == { conns[k].name : k \in 1..Len(conns) }

\* No thread runs and none has run: no tick has started, no collaborator has
\* been called.
NoTaskStarted ==
    /\ rpc = "off" /\ wpc = "off"
    /\ rOutcome = "none" /\ wOutcome = "none"
    /\ readCalled = {} /\ readLog = << >>
    /\ \A i \in DOMAIN writeLog : writeLog[i] = << >>

\* C13: Barkr(connections) with an empty list can only end in the
\* configuration error, which leaves no connections, no queues and no thread;
\* with one or more connections it can only succeed, and the object built has
\* the list given, exactly one queue per connection name, every queue empty,
\* the lock free and no thread started: no tick occurs before start().
C13_Construction ==
    /\ (phase = "new" /\ args = << >>) =>
          ENABLED ConstructFails /\ ~ENABLED Construct
    /\ (phase = "new" /\ args # << >>) =>
          ENABLED Construct /\ ~ENABLED ConstructFails
    /\ args = << >> => phase \in {"new", "config_error"}
    /\ args # << >> => phase # "config_error"
    /\ phase \in {"new", "config_error"} =>
          /\ connections = << >>
          /\ message_queues = << >>
          /\ message_queues_lock = "free"
          /\ NoTaskStarted
    /\ phase = "constructed" =>
          /\ connections = args
          /\ DOMAIN message_queues = NamesOf(args)
          /\ \A n \in DOMAIN message_queues : message_queues[n] = << >>
          /\ message_queues_lock = "free"
          /\ NoTaskStarted
          /\ ~ENABLED ReaderStep /\ ~ENABLED WriterStep

\* An object built from three connections of which two share a name: it has
\* two queues, both empty, and start() has not been called.
C13_Witness ==
    /\ phase = "constructed"
    /\ Len(args) = 3
    /\ Cardinality(DOMAIN message_queues) = 2

\* C14: with unique names, between line 82 taking the snapshot of the queue
\* of WRITE connection wi and line 94 resetting that queue, the queue is
\* still what the snapshot was: no fan-out has appended to it in between.
C14_SnapshotAndResetInOneHold ==
    (UniqueNames /\ wpc = "lock2" /\ HasWrite(wi)) =>
        QueueOf(wi) = wmessages

\* The fan-out of the batch read from connection ri has appended it to the
\* queue of one destination and not yet to the queue of another.
Torn ==
    /\ rpc = "fanout"
    /\ \E n, k \in DOMAIN message_queues :
          /\ n # connections[ri].name /\ n \notin Range(rnames)
          /\ k # connections[ri].name /\ k \in Range(rnames)

\* The writer takes the snapshot of line 82, gets the outcome of write(), or
\* resets a queue at line 94.
WriterActsOnQueues ==
    /\ wpc \in {"lock1", "writing", "lock2"}
    /\ << wpc, wi >>' # << wpc, wi >>

\* C15: the writer never takes a snapshot, has a write() call in progress or
\* ended, or resets a queue, in a state in which the reader's fan-out has
\* appended a batch to some destination queues and not yet to the others.
C15_FanOutAtomicForWriter ==
    /\ [][ WriterActsOnQueues => ~Torn /\ ~Torn' ]_vars
    /\ [](wpc = "writing" => ~Torn)

\* A fan-out has reached one destination and not the other while the writer
\* is at the with statement of line 81, waiting for the lock.
C15_Witness ==
    /\ Torn
    /\ wpc = "lock1"
    /\ message_queues_lock = "reader"
    /\ \E n \in DOMAIN message_queues :
          n # connections[ri].name /\ n \notin Range(rnames)
             /\ message_queues[n] # << >>

\* C16: while connection.write(messages) is in progress the writer holds the
\* lock, no fan-out is under way, the batch passed is still the connection's
\* whole queue and no step changes any queue; outside the call the writer
\* does not hold the lock, so that a reader waiting at line 62 while the
\* writer is between two with blocks of a tick can take the lock and fan out.
C16_WriteCallHoldsLock ==
    /\ [](wpc = "writing" =>
            /\ message_queues_lock = "writer"
            /\ rpc # "fanout"
            /\ writeLog[wi][Len(writeLog[wi])] = QueueOf(wi)
            /\ ~ENABLED FanOutAcquire /\ ~ENABLED FanOutStep)
    /\ [][ (wpc = "writing" /\ wpc' = "writing") =>
              message_queues' = message_queues ]_vars
    /\ [](wpc # "writing" => message_queues_lock # "writer")
    /\ []((wpc \in {"lock1", "lock2"} /\ rpc = "lock") =>
            ENABLED FanOutAcquire)

\* Between the turn of the first connection of a write tick and the snapshot
\* of the second one, a fan-out has taken the lock and appended a batch to
\* the second connection's queue.
C16_Witness ==
    /\ wpc = "lock1" /\ wi = 2 /\ 1 \in wCleared
    /\ rpc = "fanout" /\ rnames = << >>
    /\ message_queues_lock = "reader"
    /\ QueueOf(2) = rPrev[connections[2].name] \o rmessages
    /\ ri # 2

\* The reader is inside the with block of line 62.
ReaderInside == rpc = "fanout"

\* The writer is inside the with block of line 81, in the write() call.
WriterInside == wpc = "writing"

\* C17: the two threads are never inside their with blocks together, and the
\* lock's holder is the thread that is inside; a step that changes a queue is
\* a step of the reader inside its with block while the writer stays put, or
\* the writer's reset of line 94, taken with the lock free and the reader
\* outside; the writer's snapshot of line 82 too is taken with the lock free
\* and the reader outside.
C17_MutualExclusion ==
    /\ [](~(ReaderInside /\ WriterInside))
    /\ [](message_queues_lock = "reader" <=> ReaderInside)
    /\ [](message_queues_lock = "writer" <=> WriterInside)
    /\ [][ (phase = "running" /\ message_queues' # message_queues) =>
              \/ /\ ReaderInside /\ message_queues_lock = "reader"
                 /\ writerVars' = writerVars
              \/ /\ ~ReaderInside /\ message_queues_lock = "free"
                 /\ wpc = "lock2"
                 /\ rpc' = rpc ]_vars
    /\ [][ (wpc = "lock1" /\ wpc' # wpc) =>
              /\ ~ReaderInside /\ message_queues_lock = "free"
              /\ wmessages' = QueueOf(wi) ]_vars

\* write() is in progress with the lock held while the reader, back from a
\* read() with messages, waits at the with statement of line 62.
C17_Witness ==
    /\ WriterInside /\ message_queues_lock = "writer"
    /\ rpc = "lock" /\ rmessages # << >>

\* C18: from construction on, the keys of message_queues are exactly the
\* names of the connections the constructor was given, and no step, of a read
\* tick, of a write tick or a raising one, adds or removes a key.
C18_QueueTableKeys ==
    /\ [](phase \in {"constructed", "running"} =>
            DOMAIN message_queues = NamesOf(args))
    /\ [][ (phase \in {"constructed", "running"}) =>
              DOMAIN message_queues' = DOMAIN message_queues ]_vars

\* A fan-out has appended to a queue, a queue has been reset, a read() has
\* raised and a write() has raised.
C18_Witness ==
    /\ phase = "running"
    /\ \E n \in DOMAIN fannedTo : fannedTo[n] # << >>
    /\ wCleared # {}
    /\ rOutcome = "raised"
    /\ writeFails = 1

\* The reader is in a read() call that never returns.
ReadOutstanding == rpc = "reading" /\ Hangs(ri)

\* C19: while a read() call is in progress the reader does not hold the lock
\* (it holds it only while it fans out a non-empty result) and the writer
\* always has a step to take; and while a read() call that never returns is
\* outstanding the writer goes on beginning write ticks and completing them.
C19_ReadOutsideLock ==
    /\ [](rpc = "reading" =>
            /\ message_queues_lock # "reader"
            /\ ENABLED WriterStep)
    /\ [](message_queues_lock = "reader" =>
            rpc = "fanout" /\ rmessages # << >>)
    /\ [](ReadOutstanding => []<>WriteTickBegins)
    /\ [](ReadOutstanding =>
            []<>(wpc = "idle" /\ wOutcome = "completed"))

\* read() of the second connection is outstanding while write() of the first
\* one, called with the lock held, is in progress in a tick that began after
\* an earlier tick was completed or raised.
C19_Witness ==
    /\ ReadOutstanding
    /\ wpc = "writing" /\ message_queues_lock = "writer"
    /\ writeFails = 1

\* C20: a thread holds the lock only inside a with block; the step that ends
\* a connection's turn, write() raising included, leaves the lock free of
\* that thread; some thread always has a step to take once start() has run;
\* and, every call returning or raising, a lock held is released and a
\* thread waiting at a with statement gets past it.
C20_LockReleasedNoDeadlock ==
    /\ [](message_queues_lock = "reader" => rpc = "fanout")
    /\ [](message_queues_lock = "writer" => wpc = "writing")
    /\ [][ wi' # wi => message_queues_lock' # "writer" ]_vars
    /\ [][ ri' # ri => message_queues_lock' # "reader" ]_vars
    /\ [](phase = "running" => ENABLED ReaderStep \/ ENABLED WriterStep)
    /\ (message_queues_lock # "free") ~> (message_queues_lock = "free")
    /\ (rpc = "lock") ~> (rpc = "fanout")
    /\ (wpc = "lock1") ~> (wpc \in {"writing", "lock2"})
    /\ \A i \in {1, 2, 3} :
          (wpc = "lock2" /\ wi = i) ~> (i \in wCleared)

\* A write() call has raised with the lock held, that write tick is over, and
\* the reader is inside its with block with the lock.
C20_Witness ==
    /\ wpc = "idle" /\ wOutcome = "raised"
    /\ rpc = "fanout" /\ message_queues_lock = "reader"

====
